---- MODULE Spec2Model ----
(***************************************************************************)
(* A model of mapproxy/service/api.py: the REST dispatcher ApiServer and   *)
(* the request handlers that read, replace and edit the configuration      *)
(* document (layers, caches, sources) kept in one YAML file.               *)
(*                                                                         *)
(* Python values are modelled as follows.  A str is a TLA+ string, a list  *)
(* a sequence, a dict a function whose domain is its key set.  A value     *)
(* that may be None is a sequence of length at most one: <<>> is None and  *)
(* <<v>> is the value v.  The configuration file is identified with the    *)
(* document it parses to; a file that does not parse to a document is <<>>.*)
(***************************************************************************)
EXTENDS Integers, Sequences, FiniteSets, TLC

VARIABLES
    store,   \* the configuration file: <<doc>>, or <<>> when it holds no document
    hs,      \* hs[h]: the request handled with handler slot h, and its handler
    nreq     \* the number of requests accepted while requests may overlap

vars == <<store, hs, nreq>>

None == <<>>
Some(x) == <<x>>

(***************************************************************************)
(* Strings.                                                                *)
(***************************************************************************)
StartsWith(s, p) == Len(s) >= Len(p) /\ SubSeq(s, 1, Len(p)) = p
EndsWith(s, p) == Len(s) >= Len(p) /\ SubSeq(s, Len(s) - Len(p) + 1, Len(s)) = p

\* s.find(sub) + 1: the first position at which sub occurs in s, 0 if none.
RECURSIVE FindFrom(_, _, _)
FindFrom(s, sub, i) ==
    IF i + Len(sub) - 1 > Len(s) THEN 0
    ELSE IF SubSeq(s, i, i + Len(sub) - 1) = sub THEN i
    ELSE FindFrom(s, sub, i + 1)
Find(s, sub) == FindFrom(s, sub, 1)

\* sep.join(parts)
RECURSIVE Join(_, _)
Join(sep, parts) ==
    IF Len(parts) = 0 THEN ""
    ELSE IF Len(parts) = 1 THEN parts[1]
    ELSE parts[1] \o sep \o Join(sep, Tail(parts))

UpperCase == "ABCDEFGHIJKLMNOPQRSTUVWXYZ"
LowerCase == "abcdefghijklmnopqrstuvwxyz"

\* str.lower()
RECURSIVE Lower(_)
Lower(s) ==
    IF Len(s) = 0 THEN ""
    ELSE LET c == SubSeq(s, 1, 1)
             i == Find(UpperCase, c)
         IN (IF i > 0 THEN SubSeq(LowerCase, i, i) ELSE c) \o Lower(Tail(s))

\* The percent escapes the model decodes; any other escape is left as it is.
HexChar(xx) ==
    CASE xx = "61" -> "a"
      [] xx = "62" -> "b"
      [] xx = "2F" -> "/"
      [] xx = "0A" -> "\n"
      [] OTHER -> ""

\* urllib.unquote_plus: '+' becomes a space, %XX becomes the character.
RECURSIVE unquote_plus(_)
unquote_plus(s) ==
    IF Len(s) = 0 THEN ""
    ELSE LET c == SubSeq(s, 1, 1)
         IN IF c = "+" THEN " " \o unquote_plus(Tail(s))
            ELSE IF c = "%" /\ Len(s) >= 3 /\ HexChar(SubSeq(s, 2, 3)) # ""
                 THEN HexChar(SubSeq(s, 2, 3)) \o unquote_plus(SubSeq(s, 4, Len(s)))
            ELSE c \o unquote_plus(Tail(s))

\* Request.pop_path: drop the first path segment (the '/api' mount point).
RECURSIVE LStripSlash(_)
LStripSlash(s) ==
    IF Len(s) > 0 /\ SubSeq(s, 1, 1) = "/" THEN LStripSlash(Tail(s)) ELSE s
pop_path(path) ==
    LET p == LStripSlash(path)
        i == Find(p, "/")
    IN IF i > 0 THEN SubSeq(p, i, Len(p)) ELSE ""

(***************************************************************************)
(* Regular expressions of the shape the handlers declare: literal text     *)
(* with at most one group (.+), anchored by ^ and $.                       *)
(***************************************************************************)
Group == "(.+)"

\* ApiServer.__init__: anchor the pattern unless it is anchored already.
Anchor(re_str) ==
    LET a == IF StartsWith(re_str, "^") THEN re_str ELSE "^" \o re_str
    IN IF EndsWith(a, "$") THEN a ELSE a \o "$"

\* The text matched between ^ and $ when the subject is t, or no match.
\* Returns <<groups>> on a match and <<>> otherwise.
MatchText(body, t) ==
    LET g == Find(body, Group)
    IN IF g = 0
       THEN IF t = body THEN Some(<<>>) ELSE None
       ELSE LET prefix == SubSeq(body, 1, g - 1)
                suffix == SubSeq(body, g + Len(Group), Len(body))
                mid == SubSeq(t, Len(prefix) + 1, Len(t) - Len(suffix))
            IN IF /\ Len(t) >= Len(prefix) + Len(suffix) + 1
                  /\ StartsWith(t, prefix)
                  /\ EndsWith(t, suffix)
                  /\ Find(mid, "\n") = 0
               THEN Some(<<mid>>) ELSE None

\* A faulty variant of Match: the pattern is not anchored at its end, so it
\* matches when a prefix of the subject does.
MatchPrefix(reg_ex, url_path) ==
    LET body == SubSeq(reg_ex, 2, Len(reg_ex) - 1)
        g == Find(body, Group)
        prefix == IF g = 0 THEN body ELSE SubSeq(body, 1, g - 1)
    IN IF ~StartsWith(url_path, prefix) THEN None
       ELSE IF g = 0 THEN Some(<<>>)
       ELSE IF /\ Len(url_path) > Len(prefix)
               /\ SubSeq(url_path, Len(prefix) + 1, Len(prefix) + 1) # "\n"
            THEN Some(<<SubSeq(url_path, Len(prefix) + 1, Len(url_path))>>)
       ELSE None

\* reg_ex.match(url_path) for an anchored pattern: $ matches at the end of
\* the subject and also just before a newline that ends it.
Match(reg_ex, url_path) ==
    LET body == SubSeq(reg_ex, 2, Len(reg_ex) - 1)
        whole == MatchText(body, url_path)
    IN IF whole # None THEN whole
       ELSE IF EndsWith(url_path, "\n")
            THEN MatchText(body, SubSeq(url_path, 1, Len(url_path) - 1))
       ELSE None

(***************************************************************************)
(* The classes of the module and the handler registry.                     *)
(***************************************************************************)
\* The classes inspect.getmembers finds in the module, imported ones
\* included: the line that binds each name, whether the class is a subclass
\* of IHandler, and the sUrlRegEx it declares or inherits.
ModuleClasses ==
    { [name |-> "Response",              line |-> 15,  isHandler |-> FALSE, sUrlRegEx |-> None],
      [name |-> "Server",                line |-> 16,  isHandler |-> FALSE, sUrlRegEx |-> None],
      [name |-> "WebError",              line |-> 20,  isHandler |-> FALSE, sUrlRegEx |-> None],
      [name |-> "ApiServer",             line |-> 40,  isHandler |-> FALSE, sUrlRegEx |-> None],
      [name |-> "IHandler",              line |-> 103, isHandler |-> TRUE,  sUrlRegEx |-> None],
      [name |-> "ConfigHandler",         line |-> 169, isHandler |-> TRUE,
       sUrlRegEx |-> Some("/config")],
      [name |-> "PackHandler",           line |-> 196, isHandler |-> TRUE,  sUrlRegEx |-> None],
      [name |-> "ConfigPackListHandler", line |-> 211, isHandler |-> TRUE,
       sUrlRegEx |-> Some("/config/pack")],
      [name |-> "ConfigPackHandler",     line |-> 285, isHandler |-> TRUE,
       sUrlRegEx |-> Some("/config/pack/(.+)")] }

\* Character order of the names (ASCII: upper case, underscore, lower case).
Ascii == "ABCDEFGHIJKLMNOPQRSTUVWXYZ_abcdefghijklmnopqrstuvwxyz"

RECURSIVE StrLess(_, _)
StrLess(a, b) ==
    IF Len(b) = 0 THEN FALSE
    ELSE IF Len(a) = 0 THEN TRUE
    ELSE LET x == Find(Ascii, SubSeq(a, 1, 1))
             y == Find(Ascii, SubSeq(b, 1, 1))
         IN IF x # y THEN x < y ELSE StrLess(Tail(a), Tail(b))

\* A faulty variant of SortByName: the members in the order of the lines
\* that bind them.
RECURSIVE SortByLine(_)
SortByLine(S) ==
    IF S = {} THEN <<>>
    ELSE LET m == CHOOSE c \in S : \A d \in S \ {c} : c.line < d.line
         IN <<m>> \o SortByLine(S \ {m})

\* inspect.getmembers returns the members sorted by name.
RECURSIVE SortByName(_)
SortByName(S) ==
    IF S = {} THEN <<>>
    ELSE LET m == CHOOSE c \in S : \A d \in S \ {c} : StrLess(c.name, d.name)
         IN <<m>> \o SortByName(S \ {m})

\* get_handlers: the IHandler classes that define a URL regex, in the order
\* getmembers yields them.
get_handlers ==
    SelectSeq(SortByName(ModuleClasses),
              LAMBDA c : c.isHandler /\ c.sUrlRegEx # None)

\* ApiServer.__init__: self._handlers, the list of (reg_ex, handler) pairs.
handlers ==
    [i \in 1..Len(get_handlers) |->
        [reg_ex |-> Anchor(get_handlers[i].sUrlRegEx[1]),
         handler_type |-> get_handlers[i].name]]

\* The loop of ApiServer.handle over the list of pairs: the first pattern
\* that matches, from position i on.  Returns [handler, groups], handler ""
\* when none does.
RECURSIVE FirstMatchIn(_, _, _)
FirstMatchIn(list, i, url_path) ==
    IF i > Len(list) THEN [handler |-> "", groups |-> <<>>]
    ELSE LET m == Match(list[i].reg_ex, url_path)
         IN IF m # None
            THEN [handler |-> list[i].handler_type, groups |-> m[1]]
            ELSE FirstMatchIn(list, i + 1, url_path)

\* The loop over self._handlers.
FirstMatch(i, url_path) == FirstMatchIn(handlers, i, url_path)

(***************************************************************************)
(* Dictionaries and the configuration document.  A dict value may be null, *)
(* so a dict maps each key to a value that may be None.                    *)
(***************************************************************************)
\* key in d
HasKey(d, k) == k \in DOMAIN d
\* d.get(k, None)
DictGet(d, k) == IF k \in DOMAIN d THEN d[k] ELSE None
\* d[k] = v
SetKey(d, k, v) == [x \in DOMAIN d \cup {k} |-> IF x = k THEN v ELSE d[x]]
\* del d[k]
DelKey(d, k) == [x \in DOMAIN d \ {k} |-> d[x]]
\* del l[i], i counted from 1
RemoveAt(l, i) == SubSeq(l, 1, i - 1) \o SubSeq(l, i + 1, Len(l))

\* "%s_%s" % (pack_name, part)
PartKey(pack_name, part) == pack_name \o "_" \o part

\* The loop of PackHandler._find_layer from position i (counted from 1) on.
RECURSIVE find_layer_from(_, _, _)
find_layer_from(layers, name, i) ==
    IF i > Len(layers) THEN [idx |-> -1, layer |-> None]
    ELSE IF layers[i].name = name THEN [idx |-> i - 1, layer |-> Some(layers[i])]
    ELSE find_layer_from(layers, name, i + 1)

\* A faulty variant of find_layer: the last layer with the name is returned.
find_layer_last(config, name) ==
    LET hits == {i \in 1..Len(config.layers) : config.layers[i].name = name}
    IN IF hits = {} THEN [idx |-> -1, layer |-> None]
       ELSE LET i == CHOOSE x \in hits : \A y \in hits : y <= x
            IN [idx |-> i - 1, layer |-> Some(config.layers[i])]

\* PackHandler._find_layer: (idx, layer) of the first layer with the name,
\* idx counted from 0 as in the code, or (-1, None).
find_layer(config, name) == find_layer_from(config.layers, name, 1)

(***************************************************************************)
(* HTTP responses and the outcome of a request.                            *)
(***************************************************************************)
\* Response(text, status = ...): a plain text response.
TextResponse(text, status) ==
    [status |-> status, content_type |-> "text/plain", text |-> text, json |-> None]

\* IHandler._build_json_response
build_json_response(data) ==
    [status |-> 200, content_type |-> "application/json", text |-> "", json |-> Some(data)]

NoResponse == [status |-> 0, content_type |-> "", text |-> "", json |-> None]

(***************************************************************************)
(* Validation.  The validator and the loader are collaborators: what they  *)
(* answer for a candidate is an input of the validation steps.             *)
(***************************************************************************)
\* validate_mapproxy_conf returns ([], True) for a valid document, warnings
\* with informal_only = True, or blocking errors with informal_only = False;
\* ProxyConfiguration(config) loads or raises ConfigurationError.
Verdicts ==
    { [errors |-> <<>>, informal_only |-> TRUE],
      [errors |-> <<"unknown 'foo' in root">>, informal_only |-> TRUE],
      [errors |-> <<"missing 'url' in req">>, informal_only |-> FALSE] }

\* A faulty variant of validator_rejects: the flag is tested the wrong way
\* round, so blocking errors pass.
validator_rejects_inverted(v) == v.informal_only /\ Len(v.errors) > 0

\* A faulty variant of validator_rejects: nothing is rejected.
validator_rejects_never(v) == FALSE

\* IHandler._validate_config, first stage: the test that raises WebError 400.
validator_rejects(v) == ~v.informal_only \/ Len(v.errors) > 0

(***************************************************************************)
(* The pack operations on a document, as the handlers compute them.        *)
(***************************************************************************)
\* A faulty variant of post_existing: only the layer is looked for.
post_existing_layer_only(config, pack_name) ==
    IF find_layer(config, pack_name).layer # None
    THEN "Already have a layer for '" \o pack_name \o "'"
    ELSE ""

\* A faulty variant of post_existing: nothing is looked for.
post_existing_unchecked(config, pack_name) == ""

\* ConfigPackListHandler.post: the test for an existing layer, cache or
\* source of the name; the message of the 400 raised, or "" when none.
post_existing(config, pack_name) ==
    IF find_layer(config, pack_name).layer # None
    THEN "Already have a layer for '" \o pack_name \o "'"
    ELSE IF HasKey(config.caches, PartKey(pack_name, "cache"))
    THEN "Already have a cache '" \o PartKey(pack_name, "cache") \o "'"
    ELSE IF HasKey(config.sources, PartKey(pack_name, "source"))
    THEN "Already have a source '" \o PartKey(pack_name, "source") \o "'"
    ELSE ""

\* A faulty variant of post_new_config: the cache refers to cache_name
\* where it should refer to source_name.
post_new_config_miswired(config, content) ==
    LET pack_name == content.layer.name
        cache_name == pack_name \o "_cache"
        source_name == pack_name \o "_source"
        layer == SetKey(content.layer, "sources", <<cache_name>>)
        cache == SetKey(content.cache, "sources", <<cache_name>>)
    IN [layers  |-> Append(config.layers, layer),
        caches  |-> SetKey(config.caches, cache_name, Some(cache)),
        sources |-> SetKey(config.sources, source_name, Some(content.source))]

\* A faulty variant of post_new_config: the layer is not appended.
post_new_config_no_layer(config, content) ==
    LET pack_name == content.layer.name
        cache_name == pack_name \o "_cache"
        source_name == pack_name \o "_source"
        cache == SetKey(content.cache, "sources", <<source_name>>)
    IN [layers  |-> config.layers,
        caches  |-> SetKey(config.caches, cache_name, Some(cache)),
        sources |-> SetKey(config.sources, source_name, Some(content.source))]

\* ConfigPackListHandler.post: the copy of the configuration with the new
\* layer, cache and source, for a content that has all three.
post_new_config(config, content) ==
    LET pack_name == content.layer.name
        cache_name == pack_name \o "_cache"
        source_name == pack_name \o "_source"
        layer == SetKey(content.layer, "sources", <<cache_name>>)
        cache == SetKey(content.cache, "sources", <<source_name>>)
    IN [layers  |-> Append(config.layers, layer),
        caches  |-> SetKey(config.caches, cache_name, Some(cache)),
        sources |-> SetKey(config.sources, source_name, Some(content.source))]

\* A faulty variant of pack_get: a missing layer is not reported.
pack_get_layer_unchecked(config, packName) ==
    LET cache == DictGet(config.caches, PartKey(packName, "cache"))
        source == DictGet(config.sources, PartKey(packName, "source"))
        layer == find_layer(config, packName).layer
    IN [result  |-> [cache |-> cache, source |-> source, layer |-> layer],
        missing |-> (IF cache = None THEN <<"cache">> ELSE <<>>)
                    \o (IF source = None THEN <<"source">> ELSE <<>>)]

\* ConfigPackHandler.get: the parts found and the parts missing.
pack_get(config, packName) ==
    LET cache == DictGet(config.caches, PartKey(packName, "cache"))
        source == DictGet(config.sources, PartKey(packName, "source"))
        layer == find_layer(config, packName).layer
    IN [result  |-> [cache |-> cache, source |-> source, layer |-> layer],
        missing |-> (IF cache = None THEN <<"cache">> ELSE <<>>)
                    \o (IF source = None THEN <<"source">> ELSE <<>>)
                    \o (IF layer = None THEN <<"layer">> ELSE <<>>)]

\* A faulty variant of pack_delete: the cache is found but not removed.
pack_delete_cache_kept(new_config, config, packName) ==
    LET idx == find_layer(config, packName).idx
        cache_name == PartKey(packName, "cache")
        source_name == PartKey(packName, "source")
    IN [new_config |->
          [layers  |-> IF idx < 0 \/ idx >= Len(new_config.layers) THEN new_config.layers
                       ELSE RemoveAt(new_config.layers, idx + 1),
           caches  |-> new_config.caches,
           sources |-> IF HasKey(new_config.sources, source_name)
                       THEN DelKey(new_config.sources, source_name) ELSE new_config.sources],
        raised  |-> idx >= Len(new_config.layers),
        missing |-> (IF idx < 0 THEN <<"layer">> ELSE <<>>)
                    \o (IF HasKey(new_config.caches, cache_name) THEN <<>> ELSE <<"cache">>)
                    \o (IF HasKey(new_config.sources, source_name) THEN <<>> ELSE <<"source">>)]

\* A faulty variant of pack_delete: a missing source is not reported.
pack_delete_source_unchecked(new_config, config, packName) ==
    LET idx == find_layer(config, packName).idx
        cache_name == PartKey(packName, "cache")
        source_name == PartKey(packName, "source")
    IN [new_config |->
          [layers  |-> IF idx < 0 \/ idx >= Len(new_config.layers) THEN new_config.layers
                       ELSE RemoveAt(new_config.layers, idx + 1),
           caches  |-> IF HasKey(new_config.caches, cache_name)
                       THEN DelKey(new_config.caches, cache_name) ELSE new_config.caches,
           sources |-> IF HasKey(new_config.sources, source_name)
                       THEN DelKey(new_config.sources, source_name) ELSE new_config.sources],
        raised  |-> idx >= Len(new_config.layers),
        missing |-> (IF idx < 0 THEN <<"layer">> ELSE <<>>)
                    \o (IF HasKey(new_config.caches, cache_name) THEN <<>> ELSE <<"cache">>)]

\* ConfigPackHandler.delete after the deep copy: the index of the layer is
\* looked up in the handler's configuration config and the parts are removed
\* from the copy new_config.  Yields the copy with the parts found removed,
\* the parts missing, and whether del new_config["layers"][idx] raised
\* IndexError.
pack_delete(new_config, config, packName) ==
    LET idx == find_layer(config, packName).idx
        cache_name == PartKey(packName, "cache")
        source_name == PartKey(packName, "source")
    IN [new_config |->
          [layers  |-> IF idx < 0 \/ idx >= Len(new_config.layers) THEN new_config.layers
                       ELSE RemoveAt(new_config.layers, idx + 1),
           caches  |-> IF HasKey(new_config.caches, cache_name)
                       THEN DelKey(new_config.caches, cache_name) ELSE new_config.caches,
           sources |-> IF HasKey(new_config.sources, source_name)
                       THEN DelKey(new_config.sources, source_name) ELSE new_config.sources],
        raised  |-> idx >= Len(new_config.layers),
        missing |-> (IF idx < 0 THEN <<"layer">> ELSE <<>>)
                    \o (IF HasKey(new_config.caches, cache_name) THEN <<>> ELSE <<"cache">>)
                    \o (IF HasKey(new_config.sources, source_name) THEN <<>> ELSE <<"source">>)]

(***************************************************************************)
(* The attributes getattr(handler, name, None) can find.                   *)
(***************************************************************************)
\* The methods of each handler class, own and inherited, with the number
\* of positional parameters each takes after self.
Methods(htype) ==
    LET base == ("_get_config" :> 0) @@ ("_write_config" :> 1)
                @@ ("_get_json_content" :> 1) @@ ("_build_json_response" :> 1)
                @@ ("_validate_config" :> 1)
        pack == ("_find_layer" :> 1) @@ base
    IN CASE htype = "ConfigHandler" -> ("get" :> 1) @@ ("put" :> 1) @@ base
         [] htype = "ConfigPackListHandler" -> ("post" :> 1) @@ pack
         [] htype = "ConfigPackHandler" -> ("get" :> 2) @@ ("delete" :> 2) @@ pack
         [] OTHER -> base

\* The instance attributes set by IHandler.__init__ that are not None.
DataAttributes == {"_config_path"}

\* getattr(handler, name, None) is not None.  The instance attribute
\* _config_data is None in a new handler; a name that is no attribute
\* yields the default None.
getattr_found(htype, name) == name \in DOMAIN Methods(htype) \cup DataAttributes

(***************************************************************************)
(* Requests and documents the model draws from.                            *)
(***************************************************************************)
Names == {"a", "b"}

WiredLayer(n, t) == [name |-> n, title |-> t, sources |-> <<n \o "_cache">>]
WiredCache(n) == [grids |-> "GLOBAL_GEODETIC", sources |-> <<n \o "_source">>]

EmptyDoc == [layers |-> <<>>, caches |-> <<>>, sources |-> <<>>]

\* The documents a run starts from and the bodies PUT /config submits:
\* none, one or a partial pack, stray cache or source keys, and two layers
\* of one name.
Documents ==
    { EmptyDoc,
      [layers  |-> <<WiredLayer("a", "t1")>>,
       caches  |-> ("a_cache" :> Some(WiredCache("a"))),
       sources |-> ("a_source" :> Some([type |-> "wms"]))],
      [layers  |-> <<WiredLayer("a", "t1")>>, caches |-> <<>>, sources |-> <<>>],
      [layers  |-> <<WiredLayer("a", "t1")>>,
       caches  |-> ("a_cache" :> Some(WiredCache("a"))) @@ ("b_cache" :> Some(WiredCache("b"))),
       sources |-> ("a_source" :> Some([type |-> "wms"]))],
      [layers  |-> <<>>, caches |-> <<>>,
       sources |-> ("a_source" :> Some([type |-> "tile"]))],
      [layers  |-> <<WiredLayer("a", "t1"), WiredLayer("b", "t1"), WiredLayer("a", "t2")>>,
       caches  |-> ("a_cache" :> Some(WiredCache("a"))),
       sources |-> ("a_source" :> Some([type |-> "wms"]))] }

\* The decoded bodies POST /config/pack submits: null, no layer, a layer
\* without a name, and packs with and without cache and source.
PostContents ==
    { None,
      Some([cache |-> [grids |-> "GLOBAL_GEODETIC"], source |-> [type |-> "wms"]]),
      Some([layer |-> [title |-> "new"], cache |-> [grids |-> "GLOBAL_GEODETIC"],
            source |-> [type |-> "wms"]]) }
    \cup { Some([layer |-> [name |-> n, title |-> "new"],
                 cache |-> [grids |-> "GLOBAL_GEODETIC"],
                 source |-> [type |-> t]]) : n \in Names, t \in {"wms", "tile"} }
    \cup { Some([layer |-> [name |-> n, title |-> "new"],
                 source |-> [type |-> "wms"]]) : n \in Names }
    \cup { Some([layer |-> [name |-> n, title |-> "new"],
                 cache |-> [grids |-> "GLOBAL_GEODETIC"]]) : n \in Names }

Request(method, path, body) == [method |-> method, path |-> path, body |-> body]

\* The requests with a verb and path of the API table.
ApiRequests ==
    { Request(Some("GET"), "/api/config", None) }
    \cup { Request(Some("PUT"), "/api/config", Some(d)) : d \in Documents }
    \cup { Request(Some("POST"), "/api/config/pack", c) : c \in PostContents }
    \cup { Request(Some(m), "/api/config/pack/" \o n, None) :
             m \in {"GET", "DELETE"}, n \in Names }

\* Other requests: no REQUEST_METHOD, escaped paths (a letter, a newline at
\* the end), paths no pattern matches, verbs the handler has no method for,
\* and verbs that name another attribute of the handler.
OtherRequests ==
    { Request(None, "/api/config", None),
      Request(Some("get"), "/api/config/pack/%61", None),
      Request(Some("GET"), "/api/config%0A", None),
      Request(Some("GET"), "/api/layers", None),
      Request(Some("GET"), "/api/config/pack/", None),
      Request(Some("PATCH"), "/api/config", None),
      Request(Some("PUT"), "/api/config/pack", Some(EmptyDoc)),
      Request(Some("POST"), "/api/config/pack/a", None),
      Request(Some("_config_data"), "/api/config", None),
      Request(Some("_config_path"), "/api/config", None),
      Request(Some("_WRITE_CONFIG"), "/api/config", None),
      Request(Some("_write_config"), "/api/config/pack/a", None),
      Request(Some("_find_layer"), "/api/config/pack", None),
      Request(Some("_validate_config"), "/api/config/pack", None) }

Requests == ApiRequests \cup OtherRequests

\* The requests handled while requests may overlap.
ConcRequests ==
    { r \in ApiRequests :
        /\ r.method = Some("PUT") =>
             r.body \in {Some(EmptyDoc)}
        /\ r.method = Some("POST") =>
             /\ r.body # None
             /\ DOMAIN r.body[1] = {"layer", "cache", "source"}
             /\ "name" \in DOMAIN r.body[1].layer
             /\ r.body[1].source.type = "wms" }

Slots == {"h1"}
ConcSlots == {"h1", "h2"}
MaxRequests == 3

(***************************************************************************)
(* State.                                                                  *)
(***************************************************************************)
NoRequest == Request(None, "", None)

NoPrior == [req |-> NoRequest, htype |-> "", method |-> "", resp |-> NoResponse,
            written |-> None]

\* A handler slot before its first request.
Idle ==
    [pc          |-> "idle",
     req         |-> NoRequest,
     htype       |-> "",         \* the class of the handler instantiated
     groups      |-> <<>>,       \* match.groups()
     method      |-> "",         \* the attribute found for the verb
     config_data |-> None,       \* self._config_data
     loaded      |-> None,       \* the document load_yaml_file returned first
     loads       |-> 0,          \* how often the handler read the file
     at_read     |-> None,       \* the file when self._config was last asked for
     new_config  |-> None,       \* the candidate new_config
     missing     |-> <<>>,       \* the list missing of get and delete
     found       |-> None,       \* what _find_layer returned, when asked on its own
     verdict     |-> None,       \* (errors, informal_only) of the validator
     stage       |-> 0,          \* validation stages the candidate passed
     proxy       |-> None,       \* whether ProxyConfiguration(config) loaded, once tried
     wrote       |-> FALSE,      \* whether _write_config ran
     result      |-> "none",     \* how handle ended: response, exception, value
     resp        |-> NoResponse, \* the response handle returned
     snap        |-> None,       \* the file when the request arrived
     order       |-> <<>>,       \* the order of the list, when it is not self._handlers
     prior       |-> NoPrior]    \* the request handled just before this one

\* handle returns a response.
Respond(r, resp) == [r EXCEPT !.pc = "done", !.result = "response", !.resp = resp]
\* An exception other than WebError leaves handle.
Escape(r) == [r EXCEPT !.pc = "done", !.result = "exception"]
\* handle returns what the attribute returned, which is no Response.
ReturnValue(r) == [r EXCEPT !.pc = "done", !.result = "value"]

\* What a request remembers of the one handled just before it: which
\* request it was and what it reported, when that one wrote the file and
\* answered 200.
Summary(r) ==
    IF r.pc = "done" /\ r.wrote /\ r.result = "response" /\ r.resp.status = 200
    THEN [req |-> r.req, htype |-> r.htype, method |-> r.method,
          resp |-> r.resp, written |-> r.new_config]
    ELSE NoPrior

Init ==
    /\ store \in {Some(d) : d \in Documents}
    /\ hs = [h \in ConcSlots |-> Idle]
    /\ nreq = 0

(***************************************************************************)
(* ApiServer.handle up to the call of the method found.                    *)
(***************************************************************************)
\* What handle finds for each request of the model: the handler class and
\* groups of the first pattern that matches the decoded path, and the
\* attribute name made from the verb.
Route ==
    [req \in Requests |->
        LET m == FirstMatch(1, unquote_plus(pop_path(req.path)))
            http_method == IF req.method = None THEN "GET" ELSE req.method[1]
        IN [handler |-> m.handler, groups |-> m.groups, name |-> Lower(http_method)]]

Dispatch(h, req, prior) ==
    /\ hs[h].pc \in {"idle", "done"}
    /\ LET m == Route[req]
           r == [Idle EXCEPT !.req = req, !.snap = store, !.prior = prior,
                             !.htype = m.handler, !.groups = m.groups]
       IN hs' = [hs EXCEPT ![h] =
                   IF m.handler = ""
                   THEN Respond(r, TextResponse("Not found", 404))
                   ELSE IF ~getattr_found(m.handler, m.name)
                   THEN Respond(r, TextResponse("Not allowed", 405))
                   ELSE [r EXCEPT !.pc = "call", !.method = m.name]]
    /\ UNCHANGED store

\* One request after the other: the request before this one has completed.
Handle(h, req) ==
    /\ Dispatch(h, req, Summary(hs[h]))
    /\ UNCHANGED nreq

\* Requests that may overlap with the request of the other slot.
ConcHandle(h, req) ==
    /\ nreq < MaxRequests
    /\ Dispatch(h, req, NoPrior)
    /\ nreq' = nreq + 1

\* The call found_method(req, *groups) raises TypeError when the attribute
\* found is no method or takes another number of arguments.
Callable(r) ==
    /\ r.method \in DOMAIN Methods(r.htype)
    /\ Methods(r.htype)[r.method] = 1 + Len(r.groups)

CallTypeError(h) ==
    /\ hs[h].pc = "call"
    /\ ~Callable(hs[h])
    /\ hs' = [hs EXCEPT ![h] = Escape(@)]
    /\ UNCHANGED <<store, nreq>>

\* The entry of method name of class htype.
Enter(h, htype, name) ==
    /\ hs[h].pc = "call"
    /\ hs[h].htype \in htype
    /\ hs[h].method = name
    /\ Callable(hs[h])

(***************************************************************************)
(* IHandler.                                                               *)
(***************************************************************************)
\* IHandler._validate_config, first stage, with the validator's answer v.
ValidatorCheck(h, v) ==
    /\ hs[h].pc = "validate"
    /\ hs' = [hs EXCEPT ![h] =
                IF validator_rejects(v)
                THEN Respond([@ EXCEPT !.verdict = Some(v)],
                             TextResponse(Join("\n", v.errors), 400))
                ELSE [@ EXCEPT !.verdict = Some(v), !.stage = 1, !.pc = "instantiate"]]
    /\ UNCHANGED <<store, nreq>>

\* What the caller of _validate_config does when it returns: put, post and
\* delete go on to _write_config; called as the request's method it
\* returns None to handle.
AfterValidate(r) ==
    IF r.method = "_validate_config" THEN ReturnValue(r) ELSE [r EXCEPT !.pc = "write"]

\* IHandler._validate_config, second stage: ProxyConfiguration(config)
\* loads, or raises ConfigurationError.
Instantiate(h, loads) ==
    /\ hs[h].pc = "instantiate"
    /\ hs' = [hs EXCEPT ![h] =
                IF ~loads
                THEN Respond([@ EXCEPT !.proxy = Some(FALSE)],
                             TextResponse("Failed to update configuration:\n", 404))
                ELSE AfterValidate([@ EXCEPT !.proxy = Some(TRUE), !.stage = 2])]
    /\ UNCHANGED <<store, nreq>>

\* IHandler._get_config: the document is read from the file on the first
\* access and cached.
\* A faulty variant of load_config: the file is read at every access.
load_config_again(r, file) ==
    [r EXCEPT !.config_data = file,
              !.loaded = IF r.loads = 0 THEN file ELSE @,
              !.loads = @ + 1,
              !.at_read = file]

\* IHandler._get_config when the file holds file.
load_config(r, file) ==
    IF r.config_data = None
    THEN [r EXCEPT !.config_data = file,
                   !.loaded = IF r.loads = 0 THEN file ELSE @,
                   !.loads = @ + 1,
                   !.at_read = file]
    ELSE [r EXCEPT !.at_read = file]

\* self._config, read now.
get_config(r) == load_config(r, store)

\* The response of put, post and delete after _write_config; put answers
\* with self._config, which r has read.
written_response(r) ==
    CASE r.method = "put" -> build_json_response(r.config_data[1])
      [] r.method = "post" -> build_json_response(r.new_config[1])
      [] OTHER -> TextResponse("", 200)

\* A faulty variant of written_document: the cached document is written
\* where the candidate should be.
written_document_cached(r) == r.config_data

\* IHandler._write_config: what yaml.dump writes to the file.
written_document(r) == r.new_config

\* IHandler._write_config(new_config) and the return of the calling method.
WriteConfig(h) ==
    /\ hs[h].pc = "write"
    /\ store' = written_document(hs[h])
    /\ LET u == [hs[h] EXCEPT !.config_data = hs[h].new_config, !.wrote = TRUE]
           w == IF u.method = "put" THEN load_config(u, written_document(hs[h])) ELSE u
       IN hs' = [hs EXCEPT ![h] = Respond(w, written_response(w))]
    /\ UNCHANGED nreq

(***************************************************************************)
(* ConfigHandler.                                                          *)
(***************************************************************************)
\* ConfigHandler.get.  Reading a file that holds no document raises.
ConfigGet(h) ==
    /\ Enter(h, {"ConfigHandler"}, "get")
    /\ LET r == get_config(hs[h])
       IN hs' = [hs EXCEPT ![h] =
                   IF r.config_data = None THEN Escape(r)
                   ELSE Respond(r, build_json_response(r.config_data[1]))]
    /\ UNCHANGED <<store, nreq>>

\* ConfigHandler.put up to the call of _validate_config.
ConfigPut(h) ==
    /\ Enter(h, {"ConfigHandler"}, "put")
    /\ hs' = [hs EXCEPT ![h] = [@ EXCEPT !.new_config = hs[h].req.body, !.pc = "validate"]]
    /\ UNCHANGED <<store, nreq>>

(***************************************************************************)
(* ConfigPackListHandler.                                                  *)
(***************************************************************************)
\* ConfigPackListHandler.post up to the deep copy: the body is decoded and
\* the configuration searched for a layer, cache or source of the name.
PackPost(h) ==
    /\ Enter(h, {"ConfigPackListHandler"}, "post")
    /\ LET content == hs[h].req.body
           r == get_config(hs[h])
       IN hs' = [hs EXCEPT ![h] =
            IF content = None
            THEN Respond(@, TextResponse("Invalid JSON", 400))
            ELSE IF ~HasKey(content[1], "layer")
            THEN Respond(@, TextResponse("Missing 'layer' value.", 400))
            ELSE IF ~HasKey(content[1].layer, "name")
            THEN Respond(@, TextResponse("Missing 'name' for layer.", 400))
            ELSE IF r.config_data = None
            THEN Escape(r)
            ELSE IF post_existing(r.config_data[1], content[1].layer.name) # ""
            THEN Respond(r, TextResponse(
                     post_existing(r.config_data[1], content[1].layer.name), 400))
            ELSE [r EXCEPT !.pc = "post_copy"]]
    /\ UNCHANGED <<store, nreq>>

\* ConfigPackListHandler.post from the deep copy of self._config up to the
\* call of _validate_config.
PackPostCopy(h) ==
    /\ hs[h].pc = "post_copy"
    /\ LET content == hs[h].req.body
           r == get_config(hs[h])
       IN hs' = [hs EXCEPT ![h] =
            IF r.config_data = None
            THEN Escape(r)
            ELSE IF ~HasKey(content[1], "cache") \/ ~HasKey(content[1], "source")
            THEN Escape(r)    \* content["cache"], content["source"]: KeyError
            ELSE [r EXCEPT !.new_config = Some(post_new_config(r.config_data[1], content[1])),
                           !.pc = "validate"]]
    /\ UNCHANGED <<store, nreq>>

(***************************************************************************)
(* ConfigPackHandler.                                                      *)
(***************************************************************************)
\* ConfigPackHandler.get
PackGet(h) ==
    /\ Enter(h, {"ConfigPackHandler"}, "get")
    /\ LET r == get_config(hs[h])
       IN hs' = [hs EXCEPT ![h] =
            IF r.config_data = None THEN Escape(r)
            ELSE LET g == pack_get(r.config_data[1], r.groups[1])
                     m == [r EXCEPT !.missing = g.missing]
                 IN IF Len(g.missing) > 0
                    THEN Respond(m, TextResponse(
                             "Missing '" \o Join(", ", g.missing) \o "'", 404))
                    ELSE Respond(m, build_json_response(g.result))]
    /\ UNCHANGED <<store, nreq>>

\* ConfigPackHandler.delete: the deep copy of self._config.
PackDelete(h) ==
    /\ Enter(h, {"ConfigPackHandler"}, "delete")
    /\ LET r == get_config(hs[h])
       IN hs' = [hs EXCEPT ![h] =
            IF r.config_data = None THEN Escape(r)
            ELSE [r EXCEPT !.new_config = r.config_data, !.pc = "delete_remove"]]
    /\ UNCHANGED <<store, nreq>>

\* ConfigPackHandler.delete from the call of _find_layer up to the call of
\* _validate_config.
PackDeleteRemove(h) ==
    /\ hs[h].pc = "delete_remove"
    /\ LET r == get_config(hs[h])
       IN hs' = [hs EXCEPT ![h] =
            IF r.config_data = None THEN Escape(r)
            ELSE LET d == pack_delete(r.new_config[1], r.config_data[1], r.groups[1])
                     m == [r EXCEPT !.missing = d.missing,
                                    !.new_config = Some(d.new_config)]
                 IN IF d.raised THEN Escape(r)
                    ELSE IF Len(d.missing) > 0
                    THEN Respond(m, TextResponse(
                             "Missing '" \o Join(", ", d.missing) \o "'", 404))
                    ELSE [m EXCEPT !.pc = "validate"]]
    /\ UNCHANGED <<store, nreq>>

(***************************************************************************)
(* A verb that names an attribute which is no HTTP operation: handle calls *)
(* the attribute with the request as its argument.                         *)
(***************************************************************************)
HandlerTypes == {"ConfigHandler", "ConfigPackListHandler", "ConfigPackHandler"}

\* _write_config(req): the file is opened for writing and the request
\* object dumped to it, so it no longer holds a document; the dump ends
\* normally (handle returns None) or raises.
CallWriteConfig(h, dumped) ==
    /\ Enter(h, HandlerTypes, "_write_config")
    /\ store' = None
    /\ LET w == [hs[h] EXCEPT !.wrote = TRUE,
                   !.config_data = IF dumped THEN Some(hs[h].req) ELSE @]
       IN hs' = [hs EXCEPT ![h] = IF dumped THEN ReturnValue(w) ELSE Escape(w)]
    /\ UNCHANGED nreq

\* _find_layer(req): no layer name equals the request object, so the scan
\* returns (-1, None) to handle.
CallFindLayer(h) ==
    /\ Enter(h, HandlerTypes, "_find_layer")
    /\ LET r == get_config(hs[h])
       IN hs' = [hs EXCEPT ![h] =
                   IF r.config_data = None THEN Escape(r) ELSE ReturnValue(r)]
    /\ UNCHANGED <<store, nreq>>

\* _validate_config(req): the request object is what gets validated.
CallValidateConfig(h) ==
    /\ Enter(h, HandlerTypes, "_validate_config")
    /\ hs' = [hs EXCEPT ![h] = [@ EXCEPT !.new_config = Some(hs[h].req), !.pc = "validate"]]
    /\ UNCHANGED <<store, nreq>>

(***************************************************************************)
(* Specifications.                                                         *)
(***************************************************************************)
Steps(h) ==
    \/ ConfigGet(h)
    \/ ConfigPut(h)
    \/ PackPost(h)
    \/ PackPostCopy(h)
    \/ PackGet(h)
    \/ PackDelete(h)
    \/ PackDeleteRemove(h)
    \/ \E v \in Verdicts : ValidatorCheck(h, v)
    \/ \E loads \in BOOLEAN : Instantiate(h, loads)
    \/ WriteConfig(h)

Attributes(h) ==
    \/ CallTypeError(h)
    \/ \E dumped \in BOOLEAN : CallWriteConfig(h, dumped)
    \/ CallFindLayer(h)
    \/ CallValidateConfig(h)

\* Requests handled one after the other, each by a new handler.
Next ==
    \E h \in Slots :
        \/ \E req \in Requests : Handle(h, req)
        \/ Steps(h)
        \/ Attributes(h)

Spec == Init /\ [][Next]_vars

\* Requests handled by two handlers at a time, with no locking.
ConcNext ==
    \E h \in ConcSlots :
        \/ \E req \in ConcRequests : ConcHandle(h, req)
        \/ Steps(h)

ConcSpec == Init /\ [][ConcNext]_vars

(***************************************************************************)
(* Properties.                                                             *)
(***************************************************************************)
\* The request of slot h has ended with response status code.
Ended(h, code) ==
    hs[h].pc = "done" /\ hs[h].result = "response" /\ hs[h].resp.status = code

\* The request of slot h has ended, having entered method name of class htype.
EndedIn(h, htype, name) ==
    hs[h].pc = "done" /\ hs[h].htype = htype /\ hs[h].method = name

HasLayer(doc, n) == \E i \in 1..Len(doc.layers) : doc.layers[i].name = n

\* The parts of pack n that document doc lacks.
Absent(doc, n) ==
    (IF HasLayer(doc, n) THEN {} ELSE {"layer"})
    \cup (IF (n \o "_cache") \in DOMAIN doc.caches THEN {} ELSE {"cache"})
    \cup (IF (n \o "_source") \in DOMAIN doc.sources THEN {} ELSE {"source"})

Range(seq) == {seq[i] : i \in 1..Len(seq)}

\* The parts a "Missing '...'" message names.
Named(text) == {p \in {"layer", "cache", "source"} : Find(text, p) > 0}

\* C1. Validation gate: whenever the file changes, some PUT, POST or DELETE
\* request writes exactly its candidate, for which the validator reported no
\* blocking error and the instantiation check succeeded earlier in that
\* request; and no request that ended with 400 or 404 has written the file.
C1_ValidationGate ==
    /\ [][store' # store =>
            \E h \in ConcSlots :
                /\ hs[h].pc = "write" /\ hs'[h].pc = "done" /\ hs'[h].wrote
                /\ hs[h].method \in {"put", "post", "delete"}
                /\ hs[h].verdict # None /\ hs[h].verdict[1].informal_only
                /\ hs[h].stage = 2
                /\ store' = hs[h].new_config]_vars
    /\ [](\A h \in ConcSlots : (Ended(h, 400) \/ Ended(h, 404)) => ~hs[h].wrote)

\* C1 witness: one request has written its validated candidate while the
\* other, rejected by the validator with 400, has written nothing.
C1_Witness ==
    /\ Ended("h1", 200) /\ hs["h1"].wrote /\ hs["h1"].method = "post"
    /\ store = hs["h1"].new_config
    /\ Ended("h2", 400) /\ hs["h2"].verdict # None /\ hs["h2"].method = "delete"

\* The body of slot h's request is a pack with a named layer, a cache and a
\* source.
FullPack(h) ==
    /\ hs[h].req.body # None
    /\ DOMAIN hs[h].req.body[1] = {"layer", "cache", "source"}
    /\ "name" \in DOMAIN hs[h].req.body[1].layer

\* C2. Pack creation: a POST /config/pack of a full pack named n on a
\* document with no layer n and no keys n_cache, n_source, whose candidate
\* passed validation, has persisted the old document with one layer appended
\* (sources = [n_cache]), the cache n_cache added (sources = [n_source]) and
\* the source n_source added equal to the one submitted, everything else as
\* it was; and a GET /config right after a successful POST returns that
\* document.
C2_PackCreation ==
    \A h \in Slots :
        /\ ( /\ EndedIn(h, "ConfigPackListHandler", "post")
             /\ FullPack(h) /\ hs[h].snap # None
             /\ Absent(hs[h].snap[1], hs[h].req.body[1].layer.name)
                    = {"layer", "cache", "source"}
             /\ hs[h].stage = 2 )
           => LET old == hs[h].snap[1]
                  c == hs[h].req.body[1]
                  n == c.layer.name
              IN /\ Ended(h, 200) /\ store # None
                 /\ hs[h].resp.json = store
                 /\ Len(store[1].layers) = Len(old.layers) + 1
                 /\ SubSeq(store[1].layers, 1, Len(old.layers)) = old.layers
                 /\ LET l == store[1].layers[Len(old.layers) + 1]
                    IN /\ l.name = n /\ l.title = c.layer.title
                       /\ l.sources = <<n \o "_cache">>
                 /\ DOMAIN store[1].caches = DOMAIN old.caches \cup {n \o "_cache"}
                 /\ \A k \in DOMAIN old.caches : store[1].caches[k] = old.caches[k]
                 /\ store[1].caches[n \o "_cache"] # None
                 /\ store[1].caches[n \o "_cache"][1].sources = <<n \o "_source">>
                 /\ store[1].caches[n \o "_cache"][1].grids = c.cache.grids
                 /\ DOMAIN store[1].sources = DOMAIN old.sources \cup {n \o "_source"}
                 /\ \A k \in DOMAIN old.sources : store[1].sources[k] = old.sources[k]
                 /\ store[1].sources[n \o "_source"] = Some(c.source)
        /\ ( /\ EndedIn(h, "ConfigHandler", "get")
             /\ hs[h].prior.method = "post" )
           => /\ Ended(h, 200)
              /\ hs[h].resp.json = hs[h].prior.written
              /\ hs[h].resp.json = hs[h].prior.resp.json

\* C2 witness: a GET /config follows a POST of pack b onto a document that
\* already held pack a.
C2_Witness ==
    /\ EndedIn("h1", "ConfigHandler", "get") /\ Ended("h1", 200)
    /\ hs["h1"].prior.method = "post"
    /\ hs["h1"].prior.req.body[1].layer.name = "b"
    /\ Len(store[1].layers) = 2 /\ store[1].layers[1].name = "a"
    /\ DOMAIN store[1].caches = {"a_cache", "b_cache"}
    /\ DOMAIN store[1].sources = {"a_source", "b_source"}

\* C3. Duplicate rejection: a POST /config/pack of layer name n on a document
\* that has a layer named n, or the key n_cache, or the key n_source, ends
\* with 400, has written nothing, and leaves the file and the handler's
\* cached document as they were; so does a POST of the name of the POST that
\* succeeded just before it.
C3_DuplicateRejected ==
    \A h \in Slots :
        ( /\ EndedIn(h, "ConfigPackListHandler", "post")
          /\ hs[h].req.body # None
          /\ "layer" \in DOMAIN hs[h].req.body[1]
          /\ "name" \in DOMAIN hs[h].req.body[1].layer
          /\ hs[h].snap # None
          /\ \/ Absent(hs[h].snap[1], hs[h].req.body[1].layer.name)
                    # {"layer", "cache", "source"}
             \/ /\ hs[h].prior.method = "post"
                /\ hs[h].prior.req.body[1].layer.name = hs[h].req.body[1].layer.name )
        => /\ Ended(h, 400)
           /\ ~hs[h].wrote /\ hs[h].verdict = None
           /\ store = hs[h].snap
           /\ hs[h].config_data = hs[h].snap

\* C3 witness: the POST of pack b is repeated right after it succeeded.
C3_Witness ==
    /\ EndedIn("h1", "ConfigPackListHandler", "post") /\ Ended("h1", 400)
    /\ hs["h1"].prior.method = "post"
    /\ hs["h1"].prior.req.body[1].layer.name = "b"
    /\ hs["h1"].req.body # None /\ "layer" \in DOMAIN hs["h1"].req.body[1]
    /\ "name" \in DOMAIN hs["h1"].req.body[1].layer
    /\ hs["h1"].req.body[1].layer.name = "b"
    /\ store = hs["h1"].prior.written

C5_PackDelete ==
    \A h \in Slots :
        /\ ( /\ EndedIn(h, "ConfigPackHandler", "delete")
             /\ hs[h].snap # None
             /\ Absent(hs[h].snap[1], hs[h].groups[1]) = {}
             /\ hs[h].stage = 2 )
           => LET old == hs[h].snap[1]
                  n == hs[h].groups[1]
              IN /\ Ended(h, 200) /\ store # None
                 /\ ~HasLayer(store[1], n)
                 /\ store[1].layers = SelectSeq(old.layers, LAMBDA l : l.name # n)
                 /\ store[1].caches = DelKey(old.caches, n \o "_cache")
                 /\ store[1].sources = DelKey(old.sources, n \o "_source")
        /\ ( /\ EndedIn(h, "ConfigPackHandler", "get")
             /\ hs[h].prior.method = "delete"
             /\ hs[h].prior.req.path = hs[h].req.path )
           => Ended(h, 404)

\* C6. Pack delete failure: a DELETE /config/pack/n on a document that lacks
\* a part of pack n ends with 404 naming exactly the parts it lacks, has
\* reached neither validation nor the write, and leaves the file and the
\* handler's cached document as they were.
C6_DeleteMissing ==
    \A h \in Slots :
        ( /\ EndedIn(h, "ConfigPackHandler", "delete")
          /\ hs[h].snap # None
          /\ Absent(hs[h].snap[1], hs[h].groups[1]) # {} )
        => /\ Ended(h, 404)
           /\ Named(hs[h].resp.text) = Absent(hs[h].snap[1], hs[h].groups[1])
           /\ hs[h].verdict = None /\ hs[h].stage = 0 /\ ~hs[h].wrote
           /\ store = hs[h].snap
           /\ hs[h].config_data = hs[h].snap

\* C6 witness: the layer a was present and removed from the working copy
\* before the cache and source were found missing.
C6_Witness ==
    /\ EndedIn("h1", "ConfigPackHandler", "delete") /\ Ended("h1", 404)
    /\ hs["h1"].groups = <<"a">>
    /\ hs["h1"].missing = <<"cache", "source">>
    /\ hs["h1"].new_config # hs["h1"].config_data
    /\ store = hs["h1"].snap

\* C7, as claimed: a GET /config right after a successful PUT /config, POST
\* /config/pack or DELETE /config/pack/n returns exactly the document that
\* request reported as its response.  This fails after DELETE, whose
\* response has an empty body.
C7_RoundTripAsClaimed ==
    \A h \in Slots :
        ( /\ EndedIn(h, "ConfigHandler", "get")
          /\ hs[h].prior.method \in {"put", "post", "delete"} )
        => /\ Ended(h, 200)
           /\ hs[h].prior.resp.json # None
           /\ hs[h].resp.json = hs[h].prior.resp.json

\* C7, amended: a GET /config right after a successful PUT /config or POST
\* /config/pack returns exactly the response that request returned (the
\* document it persisted); right after a successful DELETE /config/pack/n,
\* whose response is an empty body, it returns the document DELETE
\* persisted.
C7_RoundTrip ==
    \A h \in Slots :
        ( /\ EndedIn(h, "ConfigHandler", "get")
          /\ hs[h].prior.method \in {"put", "post", "delete"} )
        => /\ Ended(h, 200)
           /\ hs[h].resp.json = hs[h].prior.written
           /\ hs[h].prior.method \in {"put", "post"} => hs[h].resp = hs[h].prior.resp
           /\ hs[h].prior.method = "delete" =>
                 hs[h].prior.resp = TextResponse("", 200)

\* C7 witness: a GET /config follows a PUT /config of a document with
\* layers.
C7_Witness ==
    /\ EndedIn("h1", "ConfigHandler", "get") /\ Ended("h1", 200)
    /\ hs["h1"].prior.method = "put"
    /\ hs["h1"].resp.json # None
    /\ Len(hs["h1"].resp.json[1].layers) > 0
    /\ hs["h1"].resp = hs["h1"].prior.resp

\* The HTTP operations of each handler class.
HttpOperations(htype) ==
    CASE htype = "ConfigHandler" -> {"get", "put"}
      [] htype = "ConfigPackListHandler" -> {"post"}
      [] htype = "ConfigPackHandler" -> {"get", "delete"}
      [] OTHER -> {}

\* C8. Unsupported verb, as claimed: a request whose path matches a pattern
\* and whose verb is none of the handler's HTTP operations ends with 405,
\* having called nothing and written nothing.  This fails for a verb that
\* names another attribute of the handler, such as _write_config.
C8_UnsupportedVerb ==
    \A h \in Slots :
        ( /\ hs[h].pc = "done"
          /\ hs[h].htype # ""
          /\ Route[hs[h].req].name \notin HttpOperations(hs[h].htype) )
        => /\ Ended(h, 405)
           /\ hs[h].method = ""
           /\ ~hs[h].wrote
           /\ store = hs[h].snap

\* C9. First validation stage, as claimed: the candidate is rejected with 400
\* exactly when the validator reports blocking errors, and a candidate with
\* informal entries only goes on to the instantiation check.  This fails:
\* any entry in the error list is rejected.
C9_BlockingErrorsOnly ==
    \A h \in Slots :
        hs[h].verdict # None =>
            /\ hs[h].verdict[1].informal_only => hs[h].stage >= 1
            /\ ~hs[h].verdict[1].informal_only => Ended(h, 400)

\* C10. Optional cache and source, as claimed: a POST /config/pack whose body
\* has a layer with a name ends in a response of handle (200, or the status
\* of a client error), whether or not the body has a cache and a source.
\* This fails: without cache or source a KeyError leaves handle.
C10_OptionalParts ==
    \A h \in Slots :
        ( /\ EndedIn(h, "ConfigPackListHandler", "post")
          /\ hs[h].req.body # None
          /\ "layer" \in DOMAIN hs[h].req.body[1]
          /\ "name" \in DOMAIN hs[h].req.body[1].layer
          /\ hs[h].snap # None )
        => /\ hs[h].result = "response"
           /\ hs[h].resp.status \in {200, 400, 404}

\* The request of slot h is a POST /config/pack that wrote its candidate and
\* answered 200.
PostSucceeded(h) ==
    /\ EndedIn(h, "ConfigPackListHandler", "post")
    /\ Ended(h, 200) /\ hs[h].wrote

\* The pack name of the POST of slot h.
PostName(h) == hs[h].req.body[1].layer.name

\* C11. Lost update: when the POSTs of both handlers have loaded the same
\* document, passed both validation stages, written and answered 200, for
\* distinct pack names, the file holds the candidate of one of them alone:
\* the loaded document with that request's layer, cache and source added and
\* nothing of the other request's pack.
C11_LostUpdate ==
    \A h \in ConcSlots : \A g \in ConcSlots \ {h} :
        ( /\ PostSucceeded(h) /\ PostSucceeded(g)
          /\ hs[h].loaded = hs[g].loaded
          /\ PostName(h) # PostName(g) )
        => /\ hs[h].stage = 2 /\ hs[g].stage = 2
           /\ hs[h].resp.json = hs[h].new_config
           /\ store \in {hs[h].new_config, hs[g].new_config}
           /\ store = hs[h].new_config =>
                LET old == hs[h].loaded[1]
                    n == PostName(h)
                    m == PostName(g)
                IN /\ Len(store[1].layers) = Len(old.layers) + 1
                   /\ SubSeq(store[1].layers, 1, Len(old.layers)) = old.layers
                   /\ store[1].layers[Len(old.layers) + 1].name = n
                   /\ DOMAIN store[1].caches = DOMAIN old.caches \cup {n \o "_cache"}
                   /\ DOMAIN store[1].sources = DOMAIN old.sources \cup {n \o "_source"}
                   /\ Absent(store[1], m) = {"layer", "cache", "source"}

\* C11 witness: only two requests were accepted, POST of pack a and POST of
\* pack b; both loaded the document they found on arrival, both answered 200
\* with their candidate, and the file holds pack b and nothing of pack a.
C11_Witness ==
    /\ nreq = 2
    /\ PostSucceeded("h1") /\ PostSucceeded("h2")
    /\ PostName("h1") = "a" /\ PostName("h2") = "b"
    /\ hs["h1"].loaded = hs["h2"].loaded /\ hs["h1"].snap = hs["h1"].loaded
    /\ hs["h1"].resp.json # None /\ HasLayer(hs["h1"].resp.json[1], "a")
    /\ store = hs["h2"].new_config
    /\ Absent(store[1], "a") = {"layer", "cache", "source"}
    /\ Absent(store[1], "b") = {}

(***************************************************************************)
(* Runs of POST /config/pack and DELETE /config/pack/{name} alone, handled *)
(* by two handlers at a time.                                              *)
(***************************************************************************)
\* No two layers of the document have the same name.
UniqueLayerNames(doc) ==
    \A i \in 1..Len(doc.layers) : \A j \in 1..Len(doc.layers) :
        doc.layers[i].name = doc.layers[j].name => i = j

\* The document with the packs a and b.
TwoPacks ==
    [layers  |-> <<WiredLayer("a", "t1"), WiredLayer("b", "t1")>>,
     caches  |-> ("a_cache" :> Some(WiredCache("a"))) @@ ("b_cache" :> Some(WiredCache("b"))),
     sources |-> ("a_source" :> Some([type |-> "wms"]))
                 @@ ("b_source" :> Some([type |-> "wms"]))]

\* The POST and DELETE requests of the runs: every body of PostContents that
\* names a layer, with a wms source when it has one.
PackRequests ==
    { r \in ApiRequests :
        \/ r.method = Some("DELETE")
        \/ /\ r.method = Some("POST")
           /\ r.body # None
           /\ "layer" \in DOMAIN r.body[1]
           /\ "name" \in DOMAIN r.body[1].layer
           /\ "source" \in DOMAIN r.body[1] => r.body[1].source.type = "wms" }

\* The steps of post and delete.
PackSteps(h) ==
    \/ PackPost(h)
    \/ PackPostCopy(h)
    \/ PackDelete(h)
    \/ PackDeleteRemove(h)
    \/ \E v \in Verdicts : ValidatorCheck(h, v)
    \/ \E loads \in BOOLEAN : Instantiate(h, loads)
    \/ WriteConfig(h)

PackNext ==
    \E h \in ConcSlots :
        \/ \E req \in PackRequests : ConcHandle(h, req)
        \/ PackSteps(h)

\* The file starts with a document whose layer names are pairwise distinct.
UniqueInit ==
    /\ store \in {Some(d) : d \in {x \in Documents \cup {TwoPacks} : UniqueLayerNames(x)}}
    /\ hs = [h \in ConcSlots |-> Idle]
    /\ nreq = 0

UniqueSpec == UniqueInit /\ [][PackNext]_vars

\* C12. Layer-name uniqueness: in every run of POST and DELETE requests, in
\* any interleaving, that starts from a document with pairwise distinct layer
\* names, no two layers of the persisted document have the same name.
C12_UniqueLayerNames == store # None /\ UniqueLayerNames(store[1])

\* C12 witness: only two requests were accepted, both POST of pack a; both
\* wrote and answered 200, and the file holds one layer named a.
C12_Witness ==
    /\ nreq = 2
    /\ PostSucceeded("h1") /\ PostSucceeded("h2")
    /\ PostName("h1") = "a" /\ PostName("h2") = "a"
    /\ hs["h1"].loaded = hs["h2"].loaded
    /\ store = hs["h2"].new_config
    /\ Cardinality({i \in 1..Len(store[1].layers) : store[1].layers[i].name = "a"}) = 1

\* C13. Validation stage ordering: the instantiation check is reached and
\* tried only for a candidate the validator-level check let pass (no errors,
\* informal_only true); a request whose instantiation failed has ended with
\* 404, has not written, and has left the file as it found it; a request
\* whose candidate the validator-level check rejected has ended with 400 and
\* never tried the instantiation.
C13_StageOrder ==
    \A h \in Slots :
        LET r == hs[h]
            passed == /\ r.verdict # None
                      /\ r.verdict[1].informal_only
                      /\ r.verdict[1].errors = <<>>
        IN /\ (r.pc = "instantiate" \/ r.proxy # None) => passed /\ r.stage >= 1
           /\ r.pc = "write" => r.proxy = Some(TRUE) /\ r.stage = 2
           /\ r.wrote /\ r.method \in {"put", "post", "delete"} => r.proxy = Some(TRUE)
           /\ r.proxy = Some(FALSE) =>
                 /\ Ended(h, 404) /\ r.stage = 1
                 /\ ~r.wrote /\ store = r.snap
           /\ (r.verdict # None /\ ~passed) =>
                 /\ Ended(h, 400) /\ r.proxy = None /\ r.stage = 0
                 /\ ~r.wrote /\ store = r.snap

\* C13 witness: the candidate of DELETE /config/pack/a passed the validator
\* and failed to instantiate; the request ended with 404 and the file still
\* holds pack a.
C13_Witness ==
    /\ EndedIn("h1", "ConfigPackHandler", "delete") /\ Ended("h1", 404)
    /\ hs["h1"].groups = <<"a">>
    /\ hs["h1"].verdict = Some([errors |-> <<>>, informal_only |-> TRUE])
    /\ hs["h1"].proxy = Some(FALSE)
    /\ hs["h1"].new_config # None /\ hs["h1"].new_config # store
    /\ store = hs["h1"].snap /\ Absent(store[1], "a") = {}

(***************************************************************************)
(* PackHandler._find_layer on its own: a new handler is asked for a name.  *)
(***************************************************************************)
MaxLayers == 3

\* The layers of the documents searched: two names, two titles.
LayerValues == {WiredLayer(n, t) : n \in Names, t \in {"t1", "t2"}}

\* The lists of at most MaxLayers layers.
LayerLists == UNION {[1..k -> LayerValues] : k \in 0..MaxLayers}

\* The names searched for: those of the layers and one no layer has.
SearchNames == Names \cup {"c"}

FindInit ==
    /\ store \in {Some([layers |-> ls, caches |-> <<>>, sources |-> <<>>]) : ls \in LayerLists}
    /\ hs = [h \in ConcSlots |-> Idle]
    /\ nreq = 0

\* handler._find_layer(name) of a new handler, as post, get and delete call it.
FindLayer(h, name) ==
    /\ LET r == get_config([Idle EXCEPT !.snap = store, !.groups = <<name>>])
       IN hs' = [hs EXCEPT ![h] =
                   ReturnValue([r EXCEPT !.found = Some(find_layer(r.config_data[1], name))])]
    /\ UNCHANGED <<store, nreq>>

FindNext == \E h \in Slots : \E name \in SearchNames : FindLayer(h, name)

FindSpec == FindInit /\ [][FindNext]_vars

\* C14. findLayer: for the document the handler loaded and the name asked
\* for, the answer is (-1, None) exactly when no layer has the name, and
\* otherwise (i, layers[i]) for the smallest index i (counted from 0) whose
\* layer has the name, also when several layers have it; the handler's
\* document and the file are as they were.
C14_FindLayer ==
    /\ [](\A h \in Slots :
            hs[h].found # None =>
                LET layers == hs[h].snap[1].layers
                    name == hs[h].groups[1]
                    hits == {i \in 1..Len(layers) : layers[i].name = name}
                    f == hs[h].found[1]
                IN /\ (f.idx = -1 /\ f.layer = None) <=> hits = {}
                   /\ hits = {} => f.idx = -1 /\ f.layer = None
                   /\ hits # {} =>
                        /\ f.idx + 1 \in hits
                        /\ \A i \in hits : f.idx + 1 <= i
                        /\ f.layer = Some(layers[f.idx + 1])
                   /\ hs[h].config_data = hs[h].snap /\ store = hs[h].snap)
    /\ [][store' = store]_vars

\* C14 witness: the layers [b, a(t1), a(t2)] were searched for a, and the
\* answer is index 1 with the layer titled t1.
C14_Witness ==
    /\ hs["h1"].found = Some([idx |-> 1, layer |-> Some(WiredLayer("a", "t1"))])
    /\ hs["h1"].groups = <<"a">>
    /\ Len(store[1].layers) = 3
    /\ store[1].layers[1].name = "b"
    /\ store[1].layers[3] = WiredLayer("a", "t2")

\* The smallest position of layers at which the name is n, 0 when none.
FirstNamed(layers, n) ==
    LET hits == {i \in 1..Len(layers) : layers[i].name = n}
    IN IF hits = {} THEN 0 ELSE CHOOSE i \in hits : \A j \in hits : i <= j

\* C15. Single snapshot: a handler reads the file at most once; until it
\* writes, its cached document is the one it loaded, whatever the file has
\* become meanwhile; what post found absent, what post copied and extended,
\* what delete copied, the index at which delete removed the layer and the
\* parts delete found missing are all those of the loaded document; and in
\* every step the cached document changes only by the first load, by the
\* handler's own write (to exactly the candidate it writes to the file), or
\* with a new handler for the next request.
C15_SingleSnapshot ==
    /\ [](\A h \in ConcSlots :
            LET r == hs[h]
                n == IF r.method = "post" THEN r.req.body[1].layer.name ELSE r.groups[1]
            IN /\ r.loads <= 1
               /\ ~r.wrote => r.config_data = (IF r.loads = 0 THEN None ELSE r.loaded)
               /\ r.wrote => r.config_data = r.new_config
               /\ (r.method = "post" /\ r.pc = "post_copy") =>
                     Absent(r.loaded[1], n) = {"layer", "cache", "source"}
               /\ (r.method = "post" /\ r.new_config # None) =>
                     LET old == r.loaded[1]
                         new == r.new_config[1]
                     IN /\ Absent(old, n) = {"layer", "cache", "source"}
                        /\ Len(new.layers) = Len(old.layers) + 1
                        /\ SubSeq(new.layers, 1, Len(old.layers)) = old.layers
                        /\ new.layers[Len(new.layers)].name = n
                        /\ DelKey(new.caches, n \o "_cache") = old.caches
                        /\ DelKey(new.sources, n \o "_source") = old.sources
               /\ (r.method = "delete" /\ r.pc = "delete_remove") =>
                     r.new_config = r.loaded
               /\ (r.method = "delete" /\ r.pc \notin {"call", "delete_remove"}) =>
                     LET old == r.loaded[1]
                         new == r.new_config[1]
                         i == FirstNamed(old.layers, n)
                     IN /\ Range(r.missing) = Absent(old, n)
                        /\ new.layers = IF i = 0 THEN old.layers ELSE RemoveAt(old.layers, i)
                        /\ new.caches = [k \in DOMAIN old.caches \ {n \o "_cache"} |-> old.caches[k]]
                        /\ new.sources = [k \in DOMAIN old.sources \ {n \o "_source"} |-> old.sources[k]])
    /\ [][\A h \in ConcSlots :
            hs'[h].config_data # hs[h].config_data =>
                \/ /\ hs[h].config_data = None /\ hs[h].loads = 0
                   /\ hs'[h].config_data = store /\ hs'[h].loads = 1
                \/ /\ hs[h].pc = "write" /\ hs'[h].wrote
                   /\ hs'[h].config_data = hs[h].new_config
                   /\ store' = hs[h].new_config
                \/ /\ hs[h].pc = "done" /\ hs'[h].req # NoRequest
                   /\ hs'[h].config_data = None /\ hs'[h].loads = 0]_vars

\* C15 witness: DELETE /config/pack/a copied the document it loaded; before
\* it looked the layer up, the other request wrote a different document;
\* the delete went on with the document it had loaded and has written it
\* with pack a removed.
C15_Witness ==
    /\ EndedIn("h1", "ConfigPackHandler", "delete") /\ Ended("h1", 200)
    /\ hs["h1"].groups = <<"a">>
    /\ hs["h1"].loads = 1
    /\ hs["h1"].at_read # hs["h1"].loaded
    /\ Absent(hs["h1"].loaded[1], "a") = {}
    /\ Absent(hs["h1"].at_read[1], "a") # {}
    /\ hs["h1"].wrote /\ store = hs["h1"].new_config
    /\ hs["h1"].config_data = store

\* One pair of the dispatcher's list.
Registered(re_str, handler_type) == [reg_ex |-> re_str, handler_type |-> handler_type]

\* C16, as claimed: the list from which a request is given its handler holds
\* the handlers that declare a pattern in the order of their declaration:
\* /config, then /config/pack, then /config/pack/(.+).  This fails: the
\* pattern of ConfigPackHandler comes before that of ConfigPackListHandler.
C16_DeclarationOrder ==
    \A h \in Slots :
        hs[h].htype # "" =>
            handlers = << Registered("^/config$", "ConfigHandler"),
                          Registered("^/config/pack$", "ConfigPackListHandler"),
                          Registered("^/config/pack/(.+)$", "ConfigPackHandler") >>

\* C16, amended: the dispatcher's list holds the handlers that declare a
\* pattern in the order of their class names: /config (ConfigHandler), then
\* /config/pack/(.+) (ConfigPackHandler), then /config/pack
\* (ConfigPackListHandler); IHandler and PackHandler, which declare none, are
\* not in the list and are never instantiated for a request.
C16_NameOrder ==
    /\ handlers = << Registered("^/config$", "ConfigHandler"),
                     Registered("^/config/pack/(.+)$", "ConfigPackHandler"),
                     Registered("^/config/pack$", "ConfigPackListHandler") >>
    /\ \A h \in Slots : hs[h].htype \notin {"IHandler", "PackHandler"}

\* C16 witness: a request was given to the handler of the third pair of the
\* list, the one for /config/pack.
C16_Witness ==
    /\ hs["h1"].pc = "done" /\ hs["h1"].htype = handlers[3].handler_type
    /\ hs["h1"].htype = "ConfigPackListHandler"
    /\ unquote_plus(pop_path(hs["h1"].req.path)) = "/config/pack"

\* The positions of the dispatcher's list whose pattern, between ^ and $,
\* matches the whole of path.
WholeMatches(path) ==
    {i \in 1..Len(handlers) :
        MatchText(SubSeq(handlers[i].reg_ex, 2, Len(handlers[i].reg_ex) - 1), path) # None}

\* C17. First-match dispatch, as claimed: a request whose decoded path is
\* matched as a whole by some pattern is given one handler, that of the first
\* such pattern in list order, with the groups the pattern captured; a
\* request whose decoded path no pattern matches as a whole ends with 404
\* with no handler instantiated, no document loaded, and the file as it was.
\* This fails for a path that ends in a newline: $ also matches just before
\* it, so /config followed by a newline is given to ConfigHandler.
C17_FirstMatch ==
    \A h \in Slots :
        hs[h].pc # "idle" =>
            LET path == unquote_plus(pop_path(hs[h].req.path))
                hits == WholeMatches(path)
            IN IF hits = {}
               THEN /\ Ended(h, 404) /\ hs[h].htype = ""
                    /\ hs[h].loads = 0 /\ hs[h].config_data = None
                    /\ ~hs[h].wrote /\ store = hs[h].snap
               ELSE LET i == CHOOSE x \in hits : \A y \in hits : x <= y
                        body == SubSeq(handlers[i].reg_ex, 2, Len(handlers[i].reg_ex) - 1)
                    IN /\ hs[h].htype = handlers[i].handler_type
                       /\ hs[h].groups = MatchText(body, path)[1]

(***************************************************************************)
(* ApiServer.handle up to the choice of the handler, with the pairs of     *)
(* self._handlers taken in any order.                                      *)
(***************************************************************************)
\* The orders in which the pairs can be listed.
Orders == {p \in [1..Len(handlers) -> 1..Len(handlers)] :
             \A i \in DOMAIN p : \A j \in DOMAIN p : p[i] = p[j] => i = j}

\* The list of pairs in the order p.
Permuted(p) == [i \in DOMAIN p |-> handlers[p[i]]]

\* The paths requested: the paths of the patterns, shortened, extended and
\* with other first segments, each as it is and followed by a slash, a
\* letter, or one or two escaped newlines.
PathStems ==
    { "", "/confi", "/config", "/configs", "/config/pac", "/config/pack",
      "/config/packs", "/config/pack/", "/config/pack/a", "/config/pack/a/b",
      "/x/config", "/config/pack/%0Aa" }

PathEnds == { "", "/", "a", "%0A", "%0A%0A", "/%0A", "a%0A" }

\* handle for GET path, the first request of a run, up to the choice of the
\* handler, the pairs listed in the order p.
DispatchPermuted(h, path, p) ==
    /\ hs[h].pc = "idle"
    /\ LET req == Request(Some("GET"), path, None)
           m == FirstMatchIn(Permuted(p), 1, unquote_plus(pop_path(path)))
           r == [Idle EXCEPT !.req = req, !.snap = store, !.order = p,
                             !.htype = m.handler, !.groups = m.groups]
       IN hs' = [hs EXCEPT ![h] =
                   IF m.handler = ""
                   THEN Respond(r, TextResponse("Not found", 404))
                   ELSE [r EXCEPT !.pc = "call", !.method = "get"]]
    /\ UNCHANGED <<store, nreq>>

MatchNext ==
    \E h \in Slots : \E stem \in PathStems : \E end \in PathEnds : \E p \in Orders :
        DispatchPermuted(h, "/api" \o stem \o end, p)

MatchSpec == Init /\ [][MatchNext]_vars

\* C18. Disjoint patterns: whatever the order of the pairs, at most one of
\* the three patterns matches the decoded path of a request, and the handler
\* chosen and the groups passed are those chosen with the pairs in the order
\* of self._handlers; the request ends with 404 exactly when no pattern
\* matches.
C18_Disjoint ==
    \A h \in Slots :
        hs[h].pc # "idle" =>
            LET path == unquote_plus(pop_path(hs[h].req.path))
                hits == {i \in 1..Len(handlers) : Match(handlers[i].reg_ex, path) # None}
            IN /\ Cardinality(hits) <= 1
               /\ hs[h].htype = FirstMatch(1, path).handler
               /\ hs[h].groups = FirstMatch(1, path).groups
               /\ \A i \in hits : hs[h].htype = handlers[i].handler_type
               /\ hits = {} <=> Ended(h, 404)

\* C18 witness: with the pairs in reverse order, /config/pack/a followed by
\* a newline was given to ConfigPackHandler with the group a.
C18_Witness ==
    /\ hs["h1"].pc = "call"
    /\ hs["h1"].order = <<3, 2, 1>>
    /\ hs["h1"].req.path = "/api/config/pack/a%0A"
    /\ hs["h1"].htype = "ConfigPackHandler" /\ hs["h1"].groups = <<"a">>

\* Every pack of the document has its layer, cache and source, or none of
\* them.
PackComplete(doc) ==
    \A n \in Names : Absent(doc, n) \in {{}, {"layer", "cache", "source"}}

\* The file starts with a document of complete packs and pairwise distinct
\* layer names: no pack, pack a, or the packs a and b.
CompleteInit ==
    /\ store \in {Some(d) : d \in {x \in Documents \cup {TwoPacks} :
                                     UniqueLayerNames(x) /\ PackComplete(x)}}
    /\ hs = [h \in ConcSlots |-> Idle]
    /\ nreq = 0

CompleteSpec == CompleteInit /\ [][PackNext]_vars

\* C19. Pack completeness: in every run of POST and DELETE requests, in any
\* interleaving and whether they succeed or fail, that starts from a
\* document of complete packs with pairwise distinct layer names, every
\* pack of the persisted document still has all three of its parts or none.
C19_PackComplete ==
    /\ store # None
    /\ UniqueLayerNames(store[1])
    /\ \A n \in Names :
          LET layer == \E i \in 1..Len(store[1].layers) : store[1].layers[i].name = n
              cache == (n \o "_cache") \in DOMAIN store[1].caches
              source == (n \o "_source") \in DOMAIN store[1].sources
          IN (layer <=> cache) /\ (cache <=> source)

\* C19 witness: only two requests were accepted, DELETE of pack a and POST
\* of pack b, on the document they both loaded; both answered 200, and the
\* file, written by the DELETE last, holds no part of either pack.
C19_Witness ==
    /\ nreq = 2
    /\ EndedIn("h1", "ConfigPackHandler", "delete") /\ Ended("h1", 200)
    /\ hs["h1"].groups = <<"a">> /\ hs["h1"].wrote
    /\ PostSucceeded("h2") /\ PostName("h2") = "b"
    /\ hs["h1"].loaded = hs["h2"].loaded
    /\ Absent(hs["h1"].loaded[1], "a") = {}
    /\ store = hs["h1"].new_config
    /\ Absent(store[1], "a") = {"layer", "cache", "source"}
    /\ Absent(store[1], "b") = {"layer", "cache", "source"}

(***************************************************************************)
(* Runs of the three pack operations on documents in which a cache or      *)
(* source key may be present with a null value.                            *)
(***************************************************************************)
\* Documents with a null cache or source entry of pack a, beside the
\* document with no pack and the one with pack a.
NullDocuments ==
    { EmptyDoc,
      [layers  |-> <<WiredLayer("a", "t1")>>,
       caches  |-> ("a_cache" :> Some(WiredCache("a"))),
       sources |-> ("a_source" :> Some([type |-> "wms"]))],
      [layers  |-> <<WiredLayer("a", "t1")>>,
       caches  |-> ("a_cache" :> None),
       sources |-> ("a_source" :> Some([type |-> "wms"]))],
      [layers  |-> <<WiredLayer("a", "t1")>>,
       caches  |-> ("a_cache" :> Some(WiredCache("a"))),
       sources |-> ("a_source" :> None)],
      [layers  |-> <<>>,
       caches  |-> ("a_cache" :> None),
       sources |-> <<>>],
      [layers  |-> <<>>,
       caches  |-> <<>>,
       sources |-> ("a_source" :> None)] }

NullInit ==
    /\ store \in {Some(d) : d \in NullDocuments}
    /\ hs = [h \in ConcSlots |-> Idle]
    /\ nreq = 0

\* GET and DELETE of a pack, and POST of a full pack with a wms source.
NullRequests ==
    { r \in ConcRequests : r.method \in {Some("POST"), Some("DELETE")} \/ r.body = None }
    \ { Request(Some("GET"), "/api/config", None) }

NullNext ==
    \E h \in ConcSlots :
        \/ \E req \in NullRequests : ConcHandle(h, req)
        \/ PackGet(h)
        \/ PackSteps(h)

NullSpec == NullInit /\ [][NullNext]_vars

\* The request of slot h is a POST that was rejected because the part
\* (cache or source) of its pack already exists.
PostRejectedFor(h, part) ==
    /\ EndedIn(h, "ConfigPackListHandler", "post") /\ Ended(h, 400)
    /\ hs[h].resp.text =
          "Already have a " \o part \o " '" \o PostName(h) \o "_" \o part \o "'"

\* C20. Agreement of the pack operations, as claimed: when a GET and a DELETE
\* of pack n have loaded the same document, they report the same parts
\* missing; and when a GET of pack n and a POST of pack n have loaded the
\* same document and the POST was rejected because the cache or the source
\* exists, the GET does not report that part missing.  This fails for a
\* document in which the key n_cache or n_source has a null value: get
\* reports the part missing, delete and post find it.
C20_PartsAgree ==
    \A h \in ConcSlots : \A g \in ConcSlots \ {h} :
        ( /\ EndedIn(h, "ConfigPackHandler", "get")
          /\ hs[h].loaded # None /\ hs[g].loaded = hs[h].loaded )
        => /\ ( /\ hs[g].htype = "ConfigPackHandler" /\ hs[g].method = "delete"
                /\ hs[g].pc \notin {"call", "delete_remove"}
                /\ hs[g].groups = hs[h].groups )
              => Range(hs[g].missing) = Range(hs[h].missing)
           /\ \A part \in {"cache", "source"} :
                 ( /\ PostRejectedFor(g, part)
                   /\ PostName(g) = hs[h].groups[1] )
                 => part \notin Range(hs[h].missing)
====
